---- MODULE Spec2Model ----
\* SleepIQ component (homeassistant/components/sleepiq/__init__.py):
\* the throttled data cache SleepIQData, the component's setup() and the
\* SleepIQSensor facades that read the shared cache.
\*
\* The host is single-threaded: one handler runs at a time.  pc is the
\* position inside the running handler, caller is who called the cache's
\* update().  Python's None is the empty set, a value v is {v}.
EXTENDS Integers, Sequences, FiniteSets, TLC

\* Mutants of the interval: too short, and one second too long.
MIN_TIME_short == 30 - 10

MIN_TIME_long == 30 + 1

\* Mutant of the interval: no throttling at all.
MIN_TIME_zero == 30 - 30

\* ---------------------------------------------------------------- constants
MIN_TIME_BETWEEN_UPDATES == 30

\* DOMAIN in the source; DOMAIN is a TLA+ keyword.
SLEEPIQ_DOMAIN == "sleepiq"

LEFT == "left"

RIGHT == "right"

SIDES == <<LEFT, RIGHT>>

\* ------------------------------------------------------------------- bounds
\* The clock stops at MaxTime seconds.
MaxTime == 60

\* The vendor returns at most MaxBeds beds in one fetch.
MaxBeds == 2

\* Number of different contents the vendor can report for one bed.
NumVersions == 2

\* The clock advances by one of these numbers of seconds between handlers:
\* just under the throttle interval and exactly the throttle interval.
TickSteps == {29, 30}

\* Bed identifiers of the account.
BedIds == {"abc123", "def456"}

\* The facades the platforms construct: SleepIQSensor(DATA, bed_id, side),
\* with the name the subclass adds.
Sensors == {"sleep_number", "is_in_bed"}

SensorBedId(s) == IF s = "sleep_number" THEN "abc123" ELSE "def456"

SensorSide(s) == IF s = "sleep_number" THEN LEFT ELSE RIGHT

SensorName(s) == IF s = "sleep_number" THEN "SleepNumber" ELSE "Is In Bed"

\* The platform that constructs the facade.
SensorPlatform(s) == IF s = "sleep_number" THEN "sensor" ELSE "binary_sensor"

\* ------------------------------------------------------------ vendor client
\* A side snapshot as the vendor reports it.
SideSnapshot(v, first) ==
  [alert_id |-> v, alert_detailed_message |-> <<"alert", v>>,
   sleeper |-> [first_name |-> first]]

BedName(id) == IF id = "abc123" THEN "Master" ELSE "Guest"

\* A bed snapshot: identifier, metadata and the two sides.  v stands for the
\* content the vendor reports at one poll.
BedSnapshot(id, v) ==
  [bed_id |-> id, name |-> BedName(id), mac_address |-> <<"mac", id>>,
   model |-> <<"model", v>>, sku |-> "sku", generation |-> v,
   purchase_date |-> "purchased", registration_date |-> "registered",
   size |-> "QUEEN",
   left |-> SideSnapshot(v, "Sam"), right |-> SideSnapshot(v + 10, "Alex")]

AllBeds == {BedSnapshot(id, v) : id \in BedIds, v \in 1..NumVersions}

\* The lists beds_with_sleeper_status() can return.
BedLists == UNION {[1..n -> AllBeds] : n \in 0..MaxBeds}

\* What one login()+beds_with_sleeper_status() attempt can do.
VendorFailures == {"ConnectionError", "AttributeError", "ValueError"}

\* What the client prints to stdout during one attempt.
ClientOutputs == {<<>>, <<"warning from client">>}

\* --------------------------------------------------------------- variables
VARIABLES
  now,          \* utcnow(), in seconds
  DATA,         \* the module global: {} is None, {"SleepIQData"} the cache
  beds,         \* SleepIQData.beds
  throttle,     \* the Throttle's time of the last run that returned: {} or {t}
  pc,           \* "idle", "login", "fetched", "ret"
  caller,       \* "none", "init", "setup" or a facade
  fetched,      \* update()'s local variable beds, once the fetch returned
  exc,          \* what update() raised to its caller, "none" if it returned
  loaded,       \* platforms handed to discovery.load_platform
  hostResult,   \* how the last handler ended: returned value or raised error
  hostCause,    \* the argument of a raised PlatformNotReady
  available,    \* SleepIQSensor._available
  bed,          \* SleepIQSensor.bed
  side,         \* SleepIQSensor.side
  attributes,   \* SleepIQSensor._attributes
  log,          \* _LOGGER.warning entries of the running update() call
  client_output,\* the captured stdout of the running attempt
  vendorError,  \* what the vendor client raised in the running update() call
  nfetch,       \* login+fetch attempts of the running update() call
  dataTime,     \* per facade, the time of the fetch its bed comes from
  lastAttempt,  \* the cache's latest fetch attempt: "none", "ok", "failed"
  lastFetchOk,  \* time of the cache's latest fetch that succeeded: {} or {t}
  prevCall,     \* time of the cache's latest update() call: {} or {t}
  callGap       \* seconds between the latest update() call and the one before

vars == <<now, DATA, beds, throttle, pc, caller, fetched, exc, loaded,
          hostResult, hostCause, available, bed, side, attributes, log,
          client_output, vendorError, nfetch, dataTime, lastAttempt,
          lastFetchOk, prevCall, callGap>>

\* The fields of the facades, with the age of the data they hold.
sensorVars == <<available, bed, side, attributes, dataTime>>

\* ------------------------------------------------------------------ helpers
\* The empty dict {}.
EmptyDict == <<>>

\* Mutant: the fetched beds are merged into the previous mapping.
BedsDict_merge(l) ==
  [k \in {l[i].bed_id : i \in 1..Len(l)} |->
     l[CHOOSE i \in 1..Len(l) :
         /\ l[i].bed_id = k
         /\ \A j \in (i + 1)..Len(l) : l[j].bed_id # k]] @@ beds

\* {bed.bed_id: bed for bed in beds}: the keys are the identifiers of the
\* list, and a later bed replaces an earlier one with the same identifier.
BedsDict(l) ==
  [k \in {l[i].bed_id : i \in 1..Len(l)} |->
     l[CHOOSE i \in 1..Len(l) :
         /\ l[i].bed_id = k
         /\ \A j \in (i + 1)..Len(l) : l[j].bed_id # k]]

\* Mutant: the window starts at the latest call, whatever its outcome.
Throttled_byLastCall(thr, t) ==
  \E last \in prevCall : t - last < MIN_TIME_BETWEEN_UPDATES

\* Throttle(MIN_TIME_BETWEEN_UPDATES): the call is suppressed when fewer than
\* the minimum interval has elapsed since the last run that returned.
Throttled(thr, t) ==
  \E last \in thr : t - last < MIN_TIME_BETWEEN_UPDATES

\* A call of the throttled update() by caller c, on a cache whose throttle
\* state is thr and whose latest call was at prev: the wrapper either returns
\* at once or enters the method body.
Throttle_wrapper(c, thr, prev) ==
  /\ caller' = c
  /\ callGap' = {now - p : p \in prev}
  /\ prevCall' = {now}
  /\ nfetch' = 0
  /\ log' = <<>>
  /\ client_output' = <<>>
  /\ vendorError' = "none"
  /\ exc' = "none"
  /\ fetched' = <<>>
  /\ pc' = IF Throttled(thr, now) THEN "ret" ELSE "login"

\* Mutant: the credential failure does not clear the mapping.
ExceptHandler_keepsBeds(kind) ==
  [beds |-> IF kind = "ValueError" THEN beds ELSE EmptyDict,
   exc  |-> CASE kind = "ConnectionError" -> "ConnectionError"
              [] kind = "AttributeError"  -> "ConnectionError"
              [] kind = "ValueError"      -> "UnknownUser"]

\* Mutant: the attribute-style error is raised as it is.
ExceptHandler_rawAttribute(kind) ==
  [beds |-> EmptyDict,
   exc  |-> CASE kind = "ConnectionError" -> "ConnectionError"
              [] kind = "AttributeError"  -> "AttributeError"
              [] kind = "ValueError"      -> "UnknownUser"]

\* Mutant: the credential failure is raised as a connectivity error.
ExceptHandler_valueAsConnection(kind) ==
  [beds |-> EmptyDict,
   exc  |-> CASE kind = "ConnectionError" -> "ConnectionError"
              [] kind = "AttributeError"  -> "ConnectionError"
              [] kind = "ValueError"      -> "ConnectionError"]

\* The except clauses of update(): what self.beds becomes and what is raised.
ExceptHandler(kind) ==
  [beds |-> EmptyDict,
   exc  |-> CASE kind = "ConnectionError" -> "ConnectionError"
              [] kind = "AttributeError"  -> "ConnectionError"
              [] kind = "ValueError"      -> "UnknownUser"]

\* Mutant: the captured output is logged even when it is empty.
Finally_always(entries, out) == Append(entries, out)

\* The finally clause of update(): the entries _LOGGER.warning receives.
Finally(entries, out) ==
  IF Len(out) > 0 THEN Append(entries, out) ELSE entries

\* ---------------------------------------------------------------- the cache
Init ==
  /\ now = 0
  /\ DATA = {}
  /\ beds = EmptyDict
  /\ throttle = {}
  /\ pc = "idle"
  /\ caller = "none"
  /\ fetched = <<>>
  /\ exc = "none"
  /\ loaded = {}
  /\ hostResult = "running"
  /\ hostCause = "none"
  /\ available = [s \in Sensors |-> FALSE]
  /\ bed = [s \in Sensors |-> {}]
  /\ side = [s \in Sensors |-> {}]
  /\ attributes = [s \in Sensors |-> EmptyDict]
  /\ log = <<>>
  /\ client_output = <<>>
  /\ vendorError = "none"
  /\ nfetch = 0
  /\ dataTime = [s \in Sensors |-> {}]
  /\ lastAttempt = "none"
  /\ lastFetchOk = {}
  /\ prevCall = {}
  /\ callGap = {}

\* Time passes between two handlers.
Tick ==
  /\ pc = "idle"
  /\ \E d \in TickSteps : now + d <= MaxTime /\ now' = now + d
  /\ UNCHANGED <<DATA, beds, throttle, pc, caller, fetched, exc, loaded,
                 hostResult, hostCause, sensorVars, log, client_output,
                 vendorError, nfetch, lastAttempt, lastFetchOk, prevCall,
                 callGap>>

\* update(), the try block with its except and finally clauses: one login and
\* fetch attempt.  On success the local beds is bound and self.beds untouched.
update_fetch ==
  /\ pc = "login"
  /\ nfetch' = nfetch + 1
  /\ \E out \in ClientOutputs :
       /\ client_output' = out
       /\ log' = Finally(log, out)
  /\ \/ \E l \in BedLists :
          /\ fetched' = l
          /\ vendorError' = "none"
          /\ lastAttempt' = "ok"
          /\ pc' = "fetched"
          /\ UNCHANGED <<beds, exc>>
     \/ \E kind \in VendorFailures :
          /\ vendorError' = kind
          /\ lastAttempt' = "failed"
          /\ beds' = ExceptHandler(kind).beds
          /\ exc' = ExceptHandler(kind).exc
          /\ pc' = "ret"
          /\ UNCHANGED fetched
  /\ UNCHANGED <<now, DATA, throttle, caller, loaded, hostResult, hostCause,
                 sensorVars, lastFetchOk, prevCall, callGap>>

\* update() after the try statement: the mapping is replaced in one
\* assignment; the method returns and the Throttle records the time.
update_assign ==
  /\ pc = "fetched"
  /\ beds' = BedsDict(fetched)
  /\ throttle' = {now}
  /\ lastFetchOk' = {now}
  /\ exc' = "none"
  /\ pc' = "ret"
  /\ UNCHANGED <<now, DATA, caller, fetched, loaded, hostResult, hostCause,
                 sensorVars, log, client_output, vendorError, nfetch,
                 lastAttempt, prevCall, callGap>>

\* ----------------------------------------------------------------- setup()
\* The errors setup()'s except clause catches.
SetupCatches == {"ConnectionError", "UnknownUser"}

\* What setup() raises when the cache raised e: a caught error is wrapped,
\* raise PlatformNotReady(e); any other error propagates as it is.
SetupRaises(e) ==
  IF e \in SetupCatches THEN [kind |-> "PlatformNotReady", cause |-> e]
  ELSE [kind |-> e, cause |-> "none"]

\* Mutant: only the sensor platform is loaded.
LoadPlatforms_sensorOnly == {"sensor"}

\* The platforms setup() hands to discovery.load_platform.
LoadPlatforms == {"sensor", "binary_sensor"}

\* setup() up to the constructor's self.update(): a new SleepIQData with an
\* empty mapping and a throttle that has never run.
setup_begin ==
  /\ pc = "idle"
  /\ loaded = {}
  /\ beds' = EmptyDict
  /\ throttle' = {}
  /\ lastFetchOk' = {}
  /\ lastAttempt' = "none"
  /\ Throttle_wrapper("init", {}, {})
  /\ hostResult' = "running"
  /\ hostCause' = "none"
  /\ UNCHANGED <<now, DATA, loaded, sensorVars>>

\* The constructor's update() is over.  If it raised, setup() raises and DATA
\* is not assigned; otherwise DATA is assigned and setup() calls DATA.update().
setup_after_init ==
  /\ pc = "ret"
  /\ caller = "init"
  /\ IF exc # "none"
     THEN /\ hostResult' = SetupRaises(exc).kind
          /\ hostCause' = SetupRaises(exc).cause
          /\ pc' = "idle"
          /\ caller' = "none"
          /\ fetched' = <<>>
          /\ UNCHANGED <<DATA, exc, log, client_output, vendorError, nfetch,
                         prevCall, callGap>>
     ELSE /\ DATA' = {"SleepIQData"}
          /\ Throttle_wrapper("setup", throttle, prevCall)
          /\ UNCHANGED <<hostResult, hostCause>>
  /\ UNCHANGED <<now, beds, throttle, loaded, sensorVars, lastAttempt,
                 lastFetchOk>>

\* DATA.update() is over: setup() raises, or loads the platforms and
\* returns True.
setup_finish ==
  /\ pc = "ret"
  /\ caller = "setup"
  /\ IF exc # "none"
     THEN /\ hostResult' = SetupRaises(exc).kind
          /\ hostCause' = SetupRaises(exc).cause
          /\ UNCHANGED loaded
     ELSE /\ loaded' = LoadPlatforms
          /\ hostResult' = "True"
          /\ UNCHANGED hostCause
  /\ pc' = "idle"
  /\ caller' = "none"
  /\ fetched' = <<>>
  /\ UNCHANGED <<now, DATA, beds, throttle, exc, sensorVars, log,
                 client_output, vendorError, nfetch, lastAttempt, lastFetchOk,
                 prevCall, callGap>>

\* ------------------------------------------------------------ SleepIQSensor
\* Mutant: the identifier is built from the resolved bed's display name.
unique_id_fromBed(s) ==
  <<"Sleep Number",
    IF bed[s] = {} THEN SensorBedId(s) ELSE (CHOOSE x \in bed[s] : TRUE).name,
    SensorSide(s), SensorName(s)>>

\* unique_id: f"Sleep Number {self._bed_id} {self._side} {self._name}".
unique_id(s) == <<"Sleep Number", SensorBedId(s), SensorSide(s), SensorName(s)>>

\* getattr(bed, side).
GetSide(b, sd) == IF sd = LEFT THEN b.left ELSE b.right

\* name: the unique identifier while bed or side is None, otherwise
\* f"Sleep Number {self.bed.name} {sleeper_name} {self._name}".
name(s) ==
  IF bed[s] = {} \/ side[s] = {} THEN unique_id(s)
  ELSE LET b == CHOOSE x \in bed[s] : TRUE
           sd == CHOOSE x \in side[s] : TRUE
       IN <<"Sleep Number", b.name, sd.sleeper.first_name, SensorName(s)>>

\* device_info of a facade whose self.bed is b.
device_info(s, b) ==
  [identifiers |-> {<<SLEEPIQ_DOMAIN, unique_id(s)>>},
   name |-> b.name, bed_id |-> SensorBedId(s),
   mac_address |-> b.mac_address, model |-> b.model, sku |-> b.sku,
   generation |-> b.generation, purchase_date |-> b.purchase_date,
   registration_date |-> b.registration_date, size |-> b.size,
   side |-> SensorSide(s)]

\* assumed_state.
assumed_state(s) == ~available[s]

\* Mutant: keys the facade already has are not rebuilt.
SetAttributes_keepsOld(old, s, b, sd) ==
  old @@ [bed_info |-> device_info(s, b),
          alerts |-> [alert_id |-> sd.alert_id,
                      message |-> sd.alert_detailed_message],
          sleeper |-> sd.sleeper.first_name]

\* The three keys update() sets in self._attributes, from bed b and side sd.
SetAttributes(old, s, b, sd) ==
  [bed_info |-> device_info(s, b),
   alerts |-> [alert_id |-> sd.alert_id,
               message |-> sd.alert_detailed_message],
   sleeper |-> sd.sleeper.first_name] @@ old

\* Mutant: the facade also catches the authentication error.
SensorCatches_all == {"ConnectionError", "UnknownUser"}

\* The errors the except clause of SleepIQSensor.update() catches.
SensorCatches == {"ConnectionError"}

\* Mutant: the facade keeps its availability on a connectivity error.
OnConnectionError_staysAvailable(s) ==
  [available |-> available[s], bed |-> bed[s], side |-> side[s],
   attributes |-> attributes[s]]

\* Mutant: the facade drops its attributes when it becomes unavailable.
OnConnectionError_clears(s) ==
  [available |-> FALSE, bed |-> bed[s], side |-> side[s],
   attributes |-> EmptyDict]

\* The except ConnectionError clause of SleepIQSensor.update(): the facade
\* becomes unavailable and nothing else is assigned.
OnConnectionError(s) ==
  [available |-> FALSE, bed |-> bed[s], side |-> side[s],
   attributes |-> attributes[s]]

\* SleepIQSensor.update() up to its call of self.sleepiq_data.update().
sensor_update_begin(s) ==
  /\ pc = "idle"
  /\ DATA # {}
  /\ SensorPlatform(s) \in loaded
  /\ Throttle_wrapper(s, throttle, prevCall)
  /\ hostResult' = "running"
  /\ hostCause' = "none"
  /\ UNCHANGED <<now, DATA, beds, throttle, loaded, sensorVars, lastAttempt,
                 lastFetchOk>>

\* SleepIQSensor.update() after the cache's update() is over.
sensor_update_finish(s) ==
  /\ pc = "ret"
  /\ caller = s
  /\ \/ /\ exc \in SensorCatches
        /\ available' = [available EXCEPT ![s] = OnConnectionError(s).available]
        /\ bed' = [bed EXCEPT ![s] = OnConnectionError(s).bed]
        /\ side' = [side EXCEPT ![s] = OnConnectionError(s).side]
        /\ attributes' =
             [attributes EXCEPT ![s] = OnConnectionError(s).attributes]
        /\ hostResult' = "None"
        /\ UNCHANGED dataTime
     \/ /\ exc \notin {"none"} \cup SensorCatches
        /\ hostResult' = exc
        /\ UNCHANGED sensorVars
     \/ /\ exc = "none"
        /\ available' = [available EXCEPT ![s] = TRUE]
        /\ IF SensorBedId(s) \in DOMAIN beds
           THEN LET b == beds[SensorBedId(s)]
                    sd == GetSide(b, SensorSide(s))
                IN /\ bed' = [bed EXCEPT ![s] = {b}]
                   /\ side' = [side EXCEPT ![s] = {sd}]
                   /\ attributes' =
                        [attributes EXCEPT
                           ![s] = SetAttributes(attributes[s], s, b, sd)]
                   /\ dataTime' = [dataTime EXCEPT ![s] = lastFetchOk]
                   /\ hostResult' = "None"
           ELSE /\ hostResult' = "KeyError"
                /\ UNCHANGED <<bed, side, attributes, dataTime>>
  /\ pc' = "idle"
  /\ caller' = "none"
  /\ fetched' = <<>>
  /\ UNCHANGED <<now, DATA, beds, throttle, exc, loaded, hostCause, log,
                 client_output, vendorError, nfetch, lastAttempt, lastFetchOk,
                 prevCall, callGap>>

\* ------------------------------------------------------------ specification
Next ==
  \/ Tick
  \/ setup_begin
  \/ update_fetch
  \/ update_assign
  \/ setup_after_init
  \/ setup_finish
  \/ \E s \in Sensors : sensor_update_begin(s)
  \/ \E s \in Sensors : sensor_update_finish(s)

Spec == Init /\ [][Next]_vars

\* ------------------------------------------------------------------- claims
\* A step that calls the cache's update(): by the constructor, by setup() or
\* by a facade.
IsUpdateCall == caller' # caller /\ caller' # "none"

\* The state right after a call of update() is over, before its caller
\* goes on.
UpdateOver == pc = "ret"

\* C1 (as stated): in a sequence of update() calls each less than 30 seconds
\* after the previous one, no call after the first performs a login+fetch.
C1_Original ==
  \A g \in callGap : g < 30 => nfetch = 0

\* C1 (amended): an update() call that comes less than 30 seconds after the
\* cache's latest successful fetch performs no fetch, raises nothing and
\* leaves the bed mapping exactly as it was.
C1_Throttled ==
  [][(IsUpdateCall /\ \E t \in lastFetchOk' : now - t < 30)
       => /\ pc' = "ret"
          /\ nfetch' = 0
          /\ exc' = "none"
          /\ beds' = beds]_vars

\* A facade's call 29 seconds after the previous call was suppressed and the
\* mapping it left alone holds a bed.
C1_Witness ==
  /\ UpdateOver
  /\ caller \in Sensors
  /\ callGap = {29}
  /\ nfetch = 0
  /\ beds # EmptyDict

\* C2: an update() call that is the cache's first, or that comes 30 seconds
\* or more (exactly 30 included) after the previous call, performs exactly
\* one login+fetch.
C2_SpacedCallsFetch ==
  (UpdateOver /\ (callGap = {} \/ \E g \in callGap : g >= 30)) => nfetch = 1

\* A facade's call exactly 30 seconds after the previous call has fetched.
C2_Witness ==
  /\ UpdateOver
  /\ caller \in Sensors
  /\ callGap = {30}
  /\ nfetch = 1

\* C3: when the fetch attempt of update() failed, with any of the three
\* failure kinds, the mapping is empty when update() exits and an error is
\* raised to the caller.
C3_FailureClearsAndRaises ==
  (UpdateOver /\ vendorError # "none") => (beds = EmptyDict /\ exc # "none")

\* A credential failure of a fetch a facade triggered, after a facade had
\* resolved a bed of an earlier, non-empty mapping.
C3_Witness ==
  /\ UpdateOver
  /\ caller \in Sensors
  /\ vendorError = "ValueError"
  /\ \E s \in Sensors : bed[s] # {}

\* C4: the mapping is unchanged while the fetch runs, and the one assignment
\* after a successful fetch makes it exactly the fetched beds keyed by their
\* identifier: its keys are the fetched identifiers and every entry is a
\* fetched bed stored under its own identifier.
C4_Replaced ==
  [][/\ (pc = "login" /\ pc' = "fetched") => beds' = beds
     /\ pc = "fetched" =>
          /\ DOMAIN beds' = {fetched[i].bed_id : i \in 1..Len(fetched)}
          /\ \A k \in DOMAIN beds' :
               /\ beds'[k].bed_id = k
               /\ \E i \in 1..Len(fetched) : fetched[i] = beds'[k]]_vars

\* A successful fetch of one bed has dropped the bed a facade had resolved
\* from the previous mapping.
C4_Witness ==
  /\ UpdateOver
  /\ nfetch = 1
  /\ exc = "none"
  /\ Len(fetched) = 1
  /\ \E s \in Sensors : bed[s] # {} /\ SensorBedId(s) \notin DOMAIN beds

\* C5: when the cache's update() raised the connectivity error to a facade,
\* the facade's update() returns without raising, the facade is unavailable
\* afterwards, and its attributes, bed and side are what they were.
C5_GracefulDegradation ==
  [][\A s \in Sensors :
       (UpdateOver /\ caller = s /\ exc = "ConnectionError")
         => /\ hostResult' = "None"
            /\ available'[s] = FALSE
            /\ attributes'[s] = attributes[s]
            /\ bed'[s] = bed[s]
            /\ side'[s] = side[s]]_vars

\* A facade's update() has returned after a connectivity error: the facade
\* is unavailable and still holds the attributes of its last good poll.
C5_Witness ==
  /\ pc = "idle"
  /\ exc = "ConnectionError"
  /\ hostResult = "None"
  /\ \E s \in Sensors : ~available[s] /\ attributes[s] # EmptyDict

\* C6 (as stated): when the facade's bed is missing from the mapping after a
\* successful refresh, the facade's update() does not raise and the display
\* name afterwards is the unique identifier.
C6_Claim ==
  [][\A s \in Sensors :
       (UpdateOver /\ caller = s /\ exc = "none" /\ nfetch = 1
          /\ SensorBedId(s) \notin DOMAIN beds)
         => /\ hostResult' = "None"
            /\ name(s)' = unique_id(s)]_vars

\* C7: a fetch that fails with the attribute-style error has the effect of
\* one that fails with a connection error: update() raises the connectivity
\* kind, the mapping is empty, a facade that triggered it returns unavailable
\* with unchanged attributes, and setup() aborts on the connectivity cause.
C7_AttributeAsConnection ==
  [][/\ (pc = "login" /\ vendorError' = "AttributeError")
          => (pc' = "ret" /\ exc' = "ConnectionError" /\ beds' = EmptyDict)
     /\ \A s \in Sensors :
          (UpdateOver /\ caller = s /\ vendorError = "AttributeError")
            => /\ hostResult' = "None"
               /\ available'[s] = FALSE
               /\ attributes'[s] = attributes[s]
     /\ (UpdateOver /\ caller = "init" /\ vendorError = "AttributeError")
          => hostCause' = "ConnectionError"]_vars

\* A facade's update() has returned after an attribute-style failure: the
\* facade is unavailable and holds its earlier attributes.
C7_Witness ==
  /\ pc = "idle"
  /\ vendorError = "AttributeError"
  /\ hostResult = "None"
  /\ beds = EmptyDict
  /\ \E s \in Sensors : ~available[s] /\ attributes[s] # EmptyDict

\* C8: a fetch that fails with the credential/value error makes update()
\* raise the authentication kind, and setup() then neither returns True nor
\* loads a platform.
C8_AuthenticationFailure ==
  [][/\ (pc = "login" /\ vendorError' = "ValueError")
          => (pc' = "ret" /\ exc' = "UnknownUser")
     /\ (UpdateOver /\ caller \in {"init", "setup"}
           /\ vendorError = "ValueError")
          => /\ hostResult' \notin {"True", "None", "running"}
             /\ loaded' = {}]_vars

\* setup() has aborted on rejected credentials.
C8_Witness ==
  /\ pc = "idle"
  /\ vendorError = "ValueError"
  /\ hostResult = "PlatformNotReady"
  /\ hostCause = "UnknownUser"
  /\ loaded = {}

\* C9 (as stated): the error setup() aborts with when the vendor rejects the
\* credentials is of another kind than the error it aborts with when the
\* fetch fails for connectivity reasons.
C9_Claim ==
  (pc = "idle" /\ loaded = {} /\ vendorError = "ValueError")
    => hostResult # SetupRaises("ConnectionError").kind

\* C10: the platforms are loaded only after the initial fetch succeeded;
\* when it succeeds both are loaded and True is returned; when it fails
\* setup() raises and neither platform is loaded.
C10_NoPartialStartup ==
  [][/\ loaded' # {} => (DATA' # {} /\ lastFetchOk' # {})
     /\ (UpdateOver /\ caller = "setup" /\ exc = "none")
          => (loaded' = {"sensor", "binary_sensor"} /\ hostResult' = "True")
     /\ hostResult' = "True" => loaded' = {"sensor", "binary_sensor"}
     /\ (UpdateOver /\ caller \in {"init", "setup"} /\ exc # "none")
          => /\ hostResult' \notin {"True", "None", "running"}
             /\ loaded' = {}]_vars

\* setup() has returned True with both platforms loaded.
C10_Witness ==
  /\ pc = "idle"
  /\ hostResult = "True"
  /\ loaded = {"sensor", "binary_sensor"}
  /\ DATA # {}

\* C11: after a facade's update() in which the cache's update() did not raise
\* (fresh fetch or suppressed call) and the facade's bed is in the mapping,
\* the facade is available, its bed and side are those of the current
\* mapping, and its attributes hold the bed_info, the alerts and the sleeper
\* first name of that bed and side.
C11_Resolved ==
  [][\A s \in Sensors :
       (UpdateOver /\ caller = s /\ exc = "none"
          /\ SensorBedId(s) \in DOMAIN beds)
         => LET b == beds'[SensorBedId(s)]
                sd == IF SensorSide(s) = "left" THEN b.left ELSE b.right
            IN /\ hostResult' = "None"
               /\ available'[s] = TRUE
               /\ bed'[s] = {b}
               /\ side'[s] = {sd}
               /\ DOMAIN attributes'[s] = {"bed_info", "alerts", "sleeper"}
               /\ attributes'[s].bed_info.name = b.name
               /\ attributes'[s].bed_info.bed_id = SensorBedId(s)
               /\ attributes'[s].bed_info.side = SensorSide(s)
               /\ attributes'[s].bed_info.model = b.model
               /\ attributes'[s].bed_info.generation = b.generation
               /\ attributes'[s].bed_info.mac_address = b.mac_address
               /\ attributes'[s].alerts =
                    [alert_id |-> sd.alert_id,
                     message |-> sd.alert_detailed_message]
               /\ attributes'[s].sleeper = sd.sleeper.first_name]_vars

\* A facade's update() has returned and the facade holds the second content
\* of its bed, the one the current mapping stores.
C11_Witness ==
  /\ pc = "idle"
  /\ hostResult = "None"
  /\ exc = "none"
  /\ \E s \in Sensors :
       /\ available[s]
       /\ SensorBedId(s) \in DOMAIN beds
       /\ bed[s] = {beds[SensorBedId(s)]}
       /\ attributes[s].bed_info.generation = 2
       /\ attributes[s].alerts.alert_id \in {2, 12}

\* C12 (as stated): the data one facade holds is never older than the data
\* another facade holds by more than the 30-second throttle interval.
C12_Original ==
  \A a \in Sensors, b \in Sensors :
    \A ta \in dataTime[a], tb \in dataTime[b] : ta - tb <= 30

\* C12 (amended): right after a facade's update() returns with its bed
\* resolved, the bed it holds is the entry of the shared mapping, which comes
\* from the cache's latest successful fetch, less than 30 seconds old.
C12_FreshAfterUpdate ==
  [][\A s \in Sensors :
       (UpdateOver /\ caller = s /\ hostResult' = "None" /\ available'[s])
         => /\ bed'[s] = {beds[SensorBedId(s)]}
            /\ dataTime'[s] = lastFetchOk
            /\ \E t \in lastFetchOk : now - t < 30]_vars

\* Both facades hold data, one from a suppressed call 29 seconds after the
\* fetch it reads.
C12_Witness ==
  /\ pc = "idle"
  /\ hostResult = "None"
  /\ exc = "none"
  /\ nfetch = 0
  /\ \A s \in Sensors : dataTime[s] # {} /\ available[s]
  /\ \E t \in lastFetchOk : now - t = 29

\* C13 (as stated): after any update() of a facade, ended by return or by
\* raise, the facade is available exactly if the cache's most recent fetch
\* attempt succeeded.
C13_Original ==
  [][\A s \in Sensors :
       (UpdateOver /\ caller = s)
         => (available'[s] <=> lastAttempt = "ok")]_vars

\* C13 (amended): a facade's availability changes only in its own update();
\* after an update() in which the cache did not raise the authentication
\* error the facade is available exactly if the cache's most recent fetch
\* attempt succeeded, and when the cache raised the authentication error the
\* availability is what it was; a facade that has resolved its bed and side
\* never returns to Unresolved.
C13_StateMachine ==
  [][\A s \in Sensors :
       /\ (UpdateOver /\ caller = s /\ exc # "UnknownUser")
            => (available'[s] <=> lastAttempt = "ok")
       /\ (UpdateOver /\ caller = s /\ exc = "UnknownUser")
            => available'[s] = available[s]
       /\ available'[s] # available[s] => (UpdateOver /\ caller = s)
       /\ bed[s] # {} => bed'[s] # {}
       /\ side[s] # {} => side'[s] # {}]_vars

\* A resolved facade has become unavailable after a connectivity failure.
C13_Witness ==
  /\ pc = "idle"
  /\ lastAttempt = "failed"
  /\ exc = "ConnectionError"
  /\ \E s \in Sensors : ~available[s] /\ bed[s] # {} /\ side[s] # {}

\* C14: when the cache's update() raises the authentication error, the
\* facade's update() lets it propagate and leaves the facade's availability,
\* bed, side and attributes unchanged.
C14_AuthenticationPropagates ==
  [][\A s \in Sensors :
       (UpdateOver /\ caller = s /\ exc = "UnknownUser")
         => /\ hostResult' = "UnknownUser"
            /\ available' = available
            /\ bed' = bed
            /\ side' = side
            /\ attributes' = attributes]_vars

\* The authentication error has propagated out of the update() of a facade
\* that stays available with its attributes.
C14_Witness ==
  /\ pc = "idle"
  /\ hostResult = "UnknownUser"
  /\ vendorError = "ValueError"
  /\ \E s \in Sensors : available[s] /\ attributes[s] # EmptyDict

\* C15: one update() call makes at most one login+fetch attempt, and a failed
\* fetch starts no throttle window: a call is suppressed only when the
\* cache's most recent fetch attempt succeeded, so the call after a failed
\* fetch attempts a fetch however little time has elapsed.
C15_NoRetryNoWindow ==
  /\ nfetch <= 1
  /\ (UpdateOver /\ nfetch = 0) => lastAttempt = "ok"

\* A facade's call in the same second as the previous call, whose fetch had
\* failed, has made a fetch attempt.
C15_Witness ==
  /\ UpdateOver
  /\ caller \in Sensors
  /\ callGap = {0}
  /\ nfetch = 1

\* C16: a fetch attempt, successful or failed, leaves exactly one warning
\* entry holding the captured output when that output is non-empty and none
\* when it is empty; a suppressed call leaves no warning entry.
C16_WarningLog ==
  (pc = "fetched" \/ UpdateOver) =>
    log = IF nfetch = 1 /\ client_output # <<>> THEN <<client_output>>
          ELSE <<>>

\* A failed attempt has logged the client's output once.
C16_Witness ==
  /\ UpdateOver
  /\ vendorError = "AttributeError"
  /\ client_output = <<"warning from client">>
  /\ log = <<client_output>>

\* C17: in every state assumed_state is the negation of available, and the
\* unique identifier is the one built at construction from bed identifier,
\* side and measurement name.
C17_Identity ==
  /\ \A s \in Sensors : assumed_state(s) <=> available[s] = FALSE
  /\ unique_id("sleep_number")
       = <<"Sleep Number", "abc123", "left", "SleepNumber">>
  /\ unique_id("is_in_bed")
       = <<"Sleep Number", "def456", "right", "Is In Bed">>

\* A facade that resolved its bed and then became unavailable.
C17_Witness ==
  /\ pc = "idle"
  /\ \E s \in Sensors : bed[s] # {} /\ ~available[s] /\ assumed_state(s)
  /\ \E s \in Sensors : available[s] /\ ~assumed_state(s)

\* C18 (as stated), between two handlers and for a facade that holds a
\* snapshot: whenever the facade is available, its bed identifier is a key of
\* the current mapping and the snapshot it holds is the one stored there.
C18_Original ==
  pc = "idle" =>
    \A s \in Sensors :
      (available[s] /\ bed[s] # {})
        => /\ SensorBedId(s) \in DOMAIN beds
           /\ bed[s] = {beds[SensorBedId(s)]}

\* C18 (amended): right after a facade's own update() returns without
\* raising and leaves the facade available, its bed identifier is a key of
\* the current mapping and the facade holds the snapshot and side stored
\* there.
C18_AvailableOnReturn ==
  [][\A s \in Sensors :
       (UpdateOver /\ caller = s /\ hostResult' = "None" /\ available'[s])
         => /\ SensorBedId(s) \in DOMAIN beds'
            /\ bed'[s] = {beds'[SensorBedId(s)]}
            /\ side'[s] = {IF SensorSide(s) = "left"
                           THEN beds'[SensorBedId(s)].left
                           ELSE beds'[SensorBedId(s)].right}]_vars

\* A facade's update() has returned after a fresh fetch; the facade is
\* available and holds the mapping's snapshot of its bed.
C18_Witness ==
  /\ pc = "idle"
  /\ hostResult = "None"
  /\ nfetch = 1
  /\ \E s \in Sensors :
       /\ available[s]
       /\ SensorBedId(s) \in DOMAIN beds
       /\ bed[s] = {beds[SensorBedId(s)]}
       /\ dataTime[s] = {now}

\* C19: setup() makes exactly one login+fetch attempt: the constructor's
\* update() fetches, the DATA.update() call that follows is suppressed and
\* neither fetches nor raises; setup() fails exactly when the constructor's
\* fetch fails, and DATA is then left as it was.
C19_SingleFetchInSetup ==
  [][/\ (UpdateOver /\ caller = "init") => nfetch = 1
     /\ (UpdateOver /\ caller = "init" /\ exc = "none")
          => /\ DATA' # {}
             /\ caller' = "setup"
             /\ pc' = "ret"
             /\ nfetch' = 0
             /\ exc' = "none"
     /\ (UpdateOver /\ caller = "init" /\ exc # "none")
          => /\ DATA' = DATA
             /\ hostResult' = "PlatformNotReady"
             /\ pc' = "idle"
     /\ (UpdateOver /\ caller = "setup")
          => (exc = "none" /\ nfetch = 0 /\ hostResult' = "True")]_vars

\* setup() has returned True; its DATA.update() call, in the same second as
\* the constructor's, made no attempt.
C19_Witness ==
  /\ pc = "idle"
  /\ hostResult = "True"
  /\ DATA # {}
  /\ callGap = {0}
  /\ nfetch = 0
  /\ lastFetchOk = {now}

====
